---- MODULE Spec2Model ----
(***************************************************************************)
(* Embeddings service (newnotes/embeddings-service).                       *)
(*                                                                         *)
(* app/models.py : EmbeddingModel wrapper and the module-global singleton  *)
(*                 accessor get_model().                                   *)
(* app/main.py   : FastAPI routes /health, /api/embeddings/generate,       *)
(*                 /api/embeddings/generate/batch and the startup hook.    *)
(*                                                                         *)
(* The route handlers are `async def` bodies without any await, so each    *)
(* one runs to completion on the event loop: one action per handler.       *)
(* get_model() is a plain function that any thread may call; its           *)
(* check / construct / store / return steps are modelled one by one for    *)
(* the threaded specification SpecThreads.                                 *)
(***************************************************************************)
EXTENDS Integers, Sequences, FiniteSets, TLC

(* ---------------------------------------------------------------------- *)
(* Bounds of the model                                                     *)
(* ---------------------------------------------------------------------- *)
\* longest batch
MaxBatch == 2
\* length of an embedding vector in the model
Dimension == 2
\* threads calling get_model() directly
NumThreads == 2

(* ---------------------------------------------------------------------- *)
(* Values                                                                  *)
(* ---------------------------------------------------------------------- *)
\* models.py:15, main.py:41,46 -- the default (and only active) model name
DefaultModelName == "all-MiniLM-L6-v2"
\* test_main.py:54 -- a model name that is not the active one
OtherModelName == "unsupported-model"
ModelNames == {DefaultModelName, OtherModelName}

\* Python None for _model_instance; objects are numbered from 1
None == 0
NoError == "none"
LoadErrors == {"missing weights", "device error"}
EncodeErrors == {"inference failure", "out of memory"}

SeqsUpTo(S, n) == UNION {[1..k -> S] : k \in 0..n}
\* texts are sequences of characters: the empty text and a non-empty one
Texts == {<<>>, <<"a">>}
TextLists == SeqsUpTo(Texts, MaxBatch)
Threads == 1..NumThreads

\* JSON bodies of the two POST routes; has_x = FALSE is an absent key
GenerateBodies ==
    [has_text : {TRUE}, text : Texts, has_model : {TRUE}, model : ModelNames]
    \cup [has_text : {FALSE}, text : {<<>>}, has_model : {TRUE}, model : ModelNames]
    \cup [has_text : {TRUE}, text : Texts, has_model : {FALSE}, model : {""}]
    \cup [has_text : {FALSE}, text : {<<>>}, has_model : {FALSE}, model : {""}]
BatchBodies ==
    [has_texts : {TRUE}, texts : TextLists, has_model : {TRUE}, model : ModelNames]
    \cup [has_texts : {FALSE}, texts : {<<>>}, has_model : {TRUE}, model : ModelNames]
    \cup [has_texts : {TRUE}, texts : TextLists, has_model : {FALSE}, model : {""}]
    \cup [has_texts : {FALSE}, texts : {<<>>}, has_model : {FALSE}, model : {""}]

\* what the environment does to one EmbeddingModel() construction:
\* torch.cuda.is_available() and whether SentenceTransformer(...) raises
LoadOutcomes ==
    [ok : {TRUE}, cuda : BOOLEAN, msg : {NoError}]
    \cup [ok : {FALSE}, cuda : {FALSE}, msg : LoadErrors]
\* what the environment does to one model.encode call
EncodeOutcomes == {NoError} \cup EncodeErrors

(* ---------------------------------------------------------------------- *)
(* Exceptions and results of a Python call                                 *)
(* ---------------------------------------------------------------------- *)
Return(v) == [kind |-> "return", value |-> v]
Raise(type, status_code, detail) ==
    [kind |-> "raise", type |-> type, status_code |-> status_code, detail |-> detail]
HTTPException(status_code, detail) == Raise("HTTPException", status_code, detail)
Exception(msg) == Raise("Exception", 0, msg)

(* ---------------------------------------------------------------------- *)
(* app/models.py                                                           *)
(* ---------------------------------------------------------------------- *)
\* EmbeddingModel.__init__: the fields of a constructed wrapper
EmbeddingModel_init(model_name, load) ==
    [model_name |-> model_name,
     device |-> IF load.cuda THEN "cuda" ELSE "cpu"]

\* number of a text: injective on Texts
CharCode(c) == IF c = "a" THEN 1 ELSE 2
RECURSIVE TextCode(_)
TextCode(text) ==
    IF text = <<>> THEN 0
    ELSE TextCode(SubSeq(text, 1, Len(text) - 1)) * 3 + CharCode(text[Len(text)])

\* the sentence vector the loaded model computes: a function of the model,
\* the device it runs on and the text, and of nothing else
SentenceVector(self, text) ==
    [i \in 1..Dimension |->
        (IF self.device = "cuda" THEN 1000 ELSE 0)
        + (IF self.model_name = DefaultModelName THEN 0 ELSE 500)
        + TextCode(text) * Dimension + i]

\* self.model.encode(text, convert_to_numpy=True): a 1-D array
encode_one(self, text) ==
    [shape |-> <<Dimension>>, data |-> SentenceVector(self, text)]

RECURSIVE ConcatVectors(_, _)
ConcatVectors(self, texts) ==
    IF texts = <<>> THEN <<>>
    ELSE SentenceVector(self, Head(texts)) \o ConcatVectors(self, Tail(texts))

\* self.model.encode(texts, convert_to_numpy=True): one row per text, in
\* input order, stored row-major; an empty input gives an empty 1-D array
encode_many(self, texts) ==
    IF texts = <<>> THEN [shape |-> <<0>>, data |-> <<>>]
    ELSE [shape |-> <<Len(texts), Dimension>>, data |-> ConcatVectors(self, texts)]

\* ndarray.tolist() of a 1-D array
tolist(arr) == [i \in 1..arr.shape[1] |-> arr.data[i]]

\* the i-th item of iterating a 2-D array: its i-th row
ArrayRow(arr, i) ==
    [shape |-> <<arr.shape[2]>>,
     data |-> SubSeq(arr.data, (i - 1) * arr.shape[2] + 1, i * arr.shape[2])]

\* EmbeddingModel.generate_embedding
EmbeddingModel_generate_embedding(self, text) ==
    tolist(encode_one(self, text))

\* EmbeddingModel.generate_embeddings_batch returning its rows last to first
EmbeddingModel_generate_embeddings_batch_reversed(self, texts) ==
    LET embeddings == encode_many(self, texts)
        n == embeddings.shape[1]
    IN  [i \in 1..n |-> tolist(ArrayRow(embeddings, n + 1 - i))]

\* EmbeddingModel.generate_embeddings_batch
EmbeddingModel_generate_embeddings_batch(self, texts) ==
    LET embeddings == encode_many(self, texts)
    IN  [i \in 1..embeddings.shape[1] |-> tolist(ArrayRow(embeddings, i))]

\* EmbeddingModel.get_dimension
EmbeddingModel_get_dimension(self) == Dimension

\* get_model() without its `is None` test: every call constructs
get_model_always_constructs(inst, objs, load) ==
    IF load.ok
    THEN [instance |-> Len(objs) + 1,
          objects |-> Append(objs, EmbeddingModel_init(DefaultModelName, load)),
          result |-> Len(objs) + 1, raised |-> NoError, constructed |-> 1]
    ELSE [instance |-> inst, objects |-> objs,
          result |-> None, raised |-> load.msg, constructed |-> 1]

\* get_model() storing the object before its model is loaded, so that a
\* failed load leaves a half-built wrapper in the global
get_model_keeps_failed(inst, objs, load) ==
    IF inst = None
    THEN [instance |-> Len(objs) + 1,
          objects |-> Append(objs, EmbeddingModel_init(DefaultModelName, load)),
          result |-> IF load.ok THEN Len(objs) + 1 ELSE None,
          raised |-> load.msg, constructed |-> 1]
    ELSE [instance |-> inst, objects |-> objs,
          result |-> inst, raised |-> NoError, constructed |-> 0]

\* get_model() run without interruption.  inst is _model_instance, objs the
\* wrappers constructed so far; the result carries the new global, the
\* returned object, the error raised and the number of constructor calls.
get_model(inst, objs, load) ==
    IF inst = None
    THEN IF load.ok
         THEN [instance |-> Len(objs) + 1,
               objects |-> Append(objs, EmbeddingModel_init(DefaultModelName, load)),
               result |-> Len(objs) + 1, raised |-> NoError, constructed |-> 1]
         ELSE [instance |-> None, objects |-> objs,
               result |-> None, raised |-> load.msg, constructed |-> 1]
    ELSE [instance |-> inst, objects |-> objs,
          result |-> inst, raised |-> NoError, constructed |-> 0]

(* ---------------------------------------------------------------------- *)
(* app/main.py: request schemas                                            *)
(* ---------------------------------------------------------------------- *)
\* EmbeddingRequest: text required with min_length=1, model defaulted
EmbeddingRequest(body) ==
    IF ~body.has_text THEN [ok |-> FALSE, error |-> "text: field required"]
    ELSE IF Len(body.text) < 1 THEN [ok |-> FALSE, error |-> "text: min_length"]
    ELSE [ok |-> TRUE,
          text |-> body.text,
          model |-> IF body.has_model THEN body.model ELSE DefaultModelName]

\* BatchEmbeddingRequest without min_items=1
BatchEmbeddingRequest_no_min_items(body) ==
    IF ~body.has_texts THEN [ok |-> FALSE, error |-> "texts: field required"]
    ELSE [ok |-> TRUE,
          texts |-> body.texts,
          model |-> IF body.has_model THEN body.model ELSE DefaultModelName]

\* BatchEmbeddingRequest: texts required with min_items=1, model defaulted
BatchEmbeddingRequest(body) ==
    IF ~body.has_texts THEN [ok |-> FALSE, error |-> "texts: field required"]
    ELSE IF Len(body.texts) < 1 THEN [ok |-> FALSE, error |-> "texts: min_items"]
    ELSE [ok |-> TRUE,
          texts |-> body.texts,
          model |-> IF body.has_model THEN body.model ELSE DefaultModelName]

\* the framework's answer to a handler's result: the returned model as a
\* 200, an HTTPException as its own status code
Respond(outcome) ==
    IF outcome.kind = "return" THEN [status |-> 200, body |-> outcome.value]
    ELSE IF outcome.type = "HTTPException"
         THEN [status |-> outcome.status_code, body |-> [detail |-> outcome.detail]]
         ELSE [status |-> 500, body |-> [detail |-> <<"Internal Server Error">>]]

\* the framework's answer to a body that fails its schema
Unprocessable(error) == [status |-> 422, body |-> [detail |-> <<error>>]]

(* ---------------------------------------------------------------------- *)
(* app/main.py: handlers                                                   *)
(* ---------------------------------------------------------------------- *)
\* the except clauses without `except HTTPException: raise`
ExceptClauses_swallows_http(outcome, prefix) ==
    IF outcome.kind = "return" THEN outcome
    ELSE HTTPException(500, <<prefix, outcome.detail>>)

\* the except clauses answering a fixed text instead of str(e)
ExceptClauses_sanitized(outcome, prefix) ==
    IF outcome.kind = "return" THEN outcome
    ELSE IF outcome.type = "HTTPException" THEN outcome
    ELSE HTTPException(500, <<prefix, "internal error">>)

\* the except clauses of generate_embedding / generate_embeddings_batch:
\*   except HTTPException: raise
\*   except Exception as e: raise HTTPException(500, f"{prefix}{str(e)}")
ExceptClauses(outcome, prefix) ==
    IF outcome.kind = "return" THEN outcome
    ELSE IF outcome.type = "HTTPException" THEN outcome
    ELSE HTTPException(500, <<prefix, outcome.detail>>)

\* health_check answering an "unhealthy" body instead of raising
HealthExceptClause_reports_200(outcome) ==
    IF outcome.kind = "return" THEN outcome
    ELSE Return([status |-> "unhealthy", model |-> "", device |-> "", dimension |-> 0])

\* the except clause of health_check: except Exception as e
HealthExceptClause(outcome) ==
    IF outcome.kind = "return" THEN outcome
    ELSE HTTPException(500, <<"Service unhealthy: ", outcome.detail>>)

NotSupported(requested, available) ==
    <<"Model ", requested, " not supported. Only ", available, " is available.">>

\* health_check()
health_check(inst, objs, load) ==
    LET gm == get_model(inst, objs, load)
        try ==
            IF gm.raised # NoError THEN Exception(gm.raised)
            ELSE LET model == gm.objects[gm.result]
                 IN  Return([status |-> "healthy",
                             model |-> model.model_name,
                             device |-> model.device,
                             dimension |-> EmbeddingModel_get_dimension(model)])
    IN  [gm |-> gm, encode_calls |-> 0, raised |-> gm.raised,
         outcome |-> HealthExceptClause(try)]

\* generate_embedding(request) treating request.model as a selector: a
\* request naming another model is encoded by a wrapper of that name
generate_embedding_selects_model(request, inst, objs, load, enc) ==
    LET gm == get_model(inst, objs, load)
        try ==
            IF gm.raised # NoError THEN Exception(gm.raised)
            ELSE LET active == gm.objects[gm.result]
                     model == [active EXCEPT !.model_name = request.model]
                 IN  IF enc # NoError THEN Exception(enc)
                     ELSE Return([embedding |-> EmbeddingModel_generate_embedding(model, request.text),
                                  model |-> model.model_name,
                                  dimension |-> EmbeddingModel_get_dimension(model)])
    IN  [gm |-> gm,
         encode_calls |-> IF gm.raised = NoError THEN 1 ELSE 0,
         raised |-> IF gm.raised # NoError THEN gm.raised ELSE enc,
         outcome |-> IF try.kind = "return" THEN try
                     ELSE HTTPException(500, <<"Failed to generate embedding: ", try.detail>>)]

\* generate_embedding(request); enc is what the encode call does if made
generate_embedding(request, inst, objs, load, enc) ==
    LET gm == get_model(inst, objs, load)
        mismatch == gm.raised = NoError
                    /\ request.model # gm.objects[gm.result].model_name
        encoded == gm.raised = NoError /\ ~mismatch
        try ==
            IF gm.raised # NoError THEN Exception(gm.raised)
            ELSE LET model == gm.objects[gm.result]
                 IN  IF mismatch
                     THEN HTTPException(400, NotSupported(request.model, model.model_name))
                     ELSE IF enc # NoError THEN Exception(enc)
                     ELSE Return([embedding |-> EmbeddingModel_generate_embedding(model, request.text),
                                  model |-> model.model_name,
                                  dimension |-> EmbeddingModel_get_dimension(model)])
    IN  [gm |-> gm,
         encode_calls |-> IF encoded THEN 1 ELSE 0,
         raised |-> IF gm.raised # NoError THEN gm.raised
                    ELSE IF encoded THEN enc ELSE NoError,
         outcome |-> ExceptClauses(try, "Failed to generate embedding: ")]

\* generate_embeddings_batch(request)
generate_embeddings_batch(request, inst, objs, load, enc) ==
    LET gm == get_model(inst, objs, load)
        mismatch == gm.raised = NoError
                    /\ request.model # gm.objects[gm.result].model_name
        encoded == gm.raised = NoError /\ ~mismatch
        try ==
            IF gm.raised # NoError THEN Exception(gm.raised)
            ELSE LET model == gm.objects[gm.result]
                 IN  IF mismatch
                     THEN HTTPException(400, NotSupported(request.model, model.model_name))
                     ELSE IF enc # NoError THEN Exception(enc)
                     ELSE LET embeddings ==
                                  EmbeddingModel_generate_embeddings_batch(model, request.texts)
                          IN  Return([embeddings |-> embeddings,
                                      model |-> model.model_name,
                                      dimension |-> EmbeddingModel_get_dimension(model),
                                      count |-> Len(embeddings)])
    IN  [gm |-> gm,
         encode_calls |-> IF encoded THEN 1 ELSE 0,
         raised |-> IF gm.raised # NoError THEN gm.raised
                    ELSE IF encoded THEN enc ELSE NoError,
         outcome |-> ExceptClauses(try, "Failed to generate embeddings: ")]

\* startup_event() logging the failure without re-raising it
startup_event_swallows(inst, objs, load) ==
    [gm |-> get_model(inst, objs, load), outcome |-> Return(None)]

\* startup_event(): get_model(), log, and re-raise whatever it raised
startup_event(inst, objs, load) ==
    LET gm == get_model(inst, objs, load)
    IN  [gm |-> gm,
         outcome |-> IF gm.raised # NoError THEN Exception(gm.raised)
                     ELSE Return(None)]

(* ---------------------------------------------------------------------- *)
(* State                                                                   *)
(* ---------------------------------------------------------------------- *)
VARIABLES
    lifecycle,       \* "created", "started", "no_lifespan" or "aborted"
    model_instance,  \* models.py _model_instance: None or an object number
    objects,         \* the EmbeddingModel objects constructed so far
    served,          \* a request has been handled
    returned,        \* per text, the vectors the generate route has returned
    last,            \* record of the operation performed last
    tpc,             \* per thread, its position inside get_model()
    tobj,            \* per thread, the object it constructed
    tres             \* per thread, what get_model() returned to it

vars == <<lifecycle, model_instance, objects, served, returned, last, tpc, tobj, tres>>
tvars == <<tpc, tobj, tres>>

Serving == lifecycle \in {"started", "no_lifespan"}

\* the constructions the environment can offer a call: get_model() consults
\* it only while _model_instance is None
LoadChoices(inst) ==
    IF inst = None THEN LoadOutcomes
    ELSE {[ok |-> TRUE, cuda |-> FALSE, msg |-> NoError]}

NoOp ==
    [op |-> "none", body |-> <<>>, status |-> 0, response |-> <<>>,
     pre_instance |-> None, pre_objects |-> 0, constructed |-> 0,
     encode_calls |-> 0, raised |-> NoError, handler_ran |-> FALSE,
     first |-> FALSE, repeat |-> FALSE, prev_failed |-> FALSE]

Init ==
    /\ lifecycle = "created"
    /\ model_instance = None
    /\ objects = <<>>
    /\ served = FALSE
    /\ returned = [t \in Texts |-> {}]
    /\ last = NoOp
    /\ tpc = [t \in Threads |-> "idle"]
    /\ tobj = [t \in Threads |-> None]
    /\ tres = [t \in Threads |-> None]

\* the effect of a call that went through get_model() on the module global
Commit(gm) ==
    /\ model_instance' = gm.instance
    /\ objects' = gm.objects

\* the operation before this one was a get_model() whose construction raised
PrevFailed == last.constructed = 1 /\ last.raised \in LoadErrors

\* the record of a call that went through get_model() outside a request
Called(op, gm, result) ==
    [NoOp EXCEPT !.op = op,
                 !.response = result,
                 !.pre_instance = model_instance,
                 !.pre_objects = Len(objects),
                 !.constructed = gm.constructed,
                 !.raised = gm.raised,
                 !.handler_ran = TRUE,
                 !.prev_failed = PrevFailed]

\* the record of a request whose handler ran
Ran(op, body, h, resp) ==
    [op |-> op, body |-> body, status |-> resp.status, response |-> resp.body,
     pre_instance |-> model_instance, pre_objects |-> Len(objects),
     constructed |-> h.gm.constructed, encode_calls |-> h.encode_calls,
     raised |-> h.raised, handler_ran |-> TRUE,
     first |-> ~served, repeat |-> FALSE, prev_failed |-> PrevFailed]

\* the record of a request the schema layer answered
Rejected(op, body, resp) ==
    [op |-> op, body |-> body, status |-> resp.status, response |-> resp.body,
     pre_instance |-> model_instance, pre_objects |-> Len(objects),
     constructed |-> 0, encode_calls |-> 0,
     raised |-> NoError, handler_ran |-> FALSE,
     first |-> ~served, repeat |-> FALSE, prev_failed |-> PrevFailed]

(* ---------------------------------------------------------------------- *)
(* Process start                                                           *)
(* ---------------------------------------------------------------------- *)
\* the server runs the startup hook; a hook that raises ends the process
Startup ==
    /\ lifecycle = "created"
    /\ \E load \in LoadChoices(model_instance) :
        LET h == startup_event(model_instance, objects, load)
        IN  /\ Commit(h.gm)
            /\ lifecycle' = IF h.outcome.kind = "raise" THEN "aborted" ELSE "started"
            /\ last' = Called("startup", h.gm, <<>>)
    /\ UNCHANGED <<served, returned, tvars>>

\* tests/test_main.py: client = TestClient(app) used without entering its
\* context, so requests are served without the startup hook having run
TestClientNoLifespan ==
    /\ lifecycle = "created"
    /\ lifecycle' = "no_lifespan"
    /\ UNCHANGED <<model_instance, objects, served, returned, last, tvars>>

(* ---------------------------------------------------------------------- *)
(* Requests                                                                *)
(* ---------------------------------------------------------------------- *)
\* GET /health
Health ==
    /\ Serving
    /\ \E load \in LoadChoices(model_instance) :
        LET h == health_check(model_instance, objects, load)
        IN  /\ Commit(h.gm)
            /\ last' = Ran("health", <<>>, h, Respond(h.outcome))
    /\ served' = TRUE
    /\ UNCHANGED <<lifecycle, returned, tvars>>

\* POST /api/embeddings/generate
Generate ==
    /\ Serving
    /\ \E body \in GenerateBodies :
        LET request == EmbeddingRequest(body)
        IN  IF ~request.ok
            THEN /\ last' = Rejected("generate", body, Unprocessable(request.error))
                 /\ UNCHANGED <<model_instance, objects, returned>>
            ELSE \E load \in LoadChoices(model_instance), enc \in EncodeOutcomes :
                    LET h == generate_embedding(request, model_instance, objects, load, enc)
                        resp == Respond(h.outcome)
                    IN  /\ Commit(h.gm)
                        /\ last' = [Ran("generate", body, h, resp) EXCEPT
                                     !.repeat = resp.status = 200
                                                /\ returned[request.text] # {}]
                        /\ returned' =
                             IF resp.status = 200
                             THEN [returned EXCEPT ![request.text] = @ \cup {resp.body.embedding}]
                             ELSE returned
    /\ served' = TRUE
    /\ UNCHANGED <<lifecycle, tvars>>

\* POST /api/embeddings/generate/batch
Batch ==
    /\ Serving
    /\ \E body \in BatchBodies :
        LET request == BatchEmbeddingRequest(body)
        IN  IF ~request.ok
            THEN /\ last' = Rejected("batch", body, Unprocessable(request.error))
                 /\ UNCHANGED <<model_instance, objects>>
            ELSE \E load \in LoadChoices(model_instance), enc \in EncodeOutcomes :
                    LET h == generate_embeddings_batch(request, model_instance, objects, load, enc)
                    IN  /\ Commit(h.gm)
                        /\ last' = Ran("batch", body, h, Respond(h.outcome))
    /\ served' = TRUE
    /\ UNCHANGED <<lifecycle, returned, tvars>>

(* ---------------------------------------------------------------------- *)
(* Direct calls of app/models.py, as tests/test_models.py makes them       *)
(* ---------------------------------------------------------------------- *)
\* get_model() called from the main thread
CallGetModel ==
    /\ lifecycle # "aborted"
    /\ \E load \in LoadChoices(model_instance) :
        LET gm == get_model(model_instance, objects, load)
        IN  /\ Commit(gm)
            /\ last' = Called("get_model", gm, <<gm.result>>)
    /\ UNCHANGED <<lifecycle, served, returned, tvars>>

\* get_model().generate_embeddings_batch(texts) on the existing singleton
CallGenerateEmbeddingsBatch ==
    /\ lifecycle # "aborted"
    /\ model_instance # None
    /\ \E texts \in TextLists :
        last' = [NoOp EXCEPT !.op = "wrapper_batch",
                             !.body = texts,
                             !.response = EmbeddingModel_generate_embeddings_batch(
                                              objects[model_instance], texts),
                             !.pre_instance = model_instance,
                             !.pre_objects = Len(objects),
                             !.encode_calls = 1,
                             !.handler_ran = TRUE,
                             !.prev_failed = PrevFailed]
    /\ UNCHANGED <<lifecycle, model_instance, objects, served, returned, tvars>>

Next ==
    \/ Startup
    \/ TestClientNoLifespan
    \/ Health
    \/ Generate
    \/ Batch
    \/ CallGetModel
    \/ CallGenerateEmbeddingsBatch

Spec == Init /\ [][Next]_vars

(* ---------------------------------------------------------------------- *)
(* get_model() called from several threads, one step at a time             *)
(* ---------------------------------------------------------------------- *)
\* if _model_instance is None:
ThreadCheck(t) ==
    /\ lifecycle # "aborted"
    /\ tpc[t] = "idle"
    /\ tpc' = [tpc EXCEPT ![t] = IF model_instance = None THEN "construct" ELSE "return"]
    /\ UNCHANGED <<lifecycle, model_instance, objects, served, returned, last, tobj, tres>>

\* EmbeddingModel()
ThreadConstruct(t) ==
    /\ tpc[t] = "construct"
    /\ \E load \in LoadOutcomes :
        IF load.ok
        THEN /\ objects' = Append(objects, EmbeddingModel_init(DefaultModelName, load))
             /\ tobj' = [tobj EXCEPT ![t] = Len(objects) + 1]
             /\ tpc' = [tpc EXCEPT ![t] = "store"]
        ELSE /\ tpc' = [tpc EXCEPT ![t] = "raised"]
             /\ UNCHANGED <<objects, tobj>>
    /\ UNCHANGED <<lifecycle, model_instance, served, returned, last, tres>>

\* _model_instance = <the new object>
ThreadStore(t) ==
    /\ tpc[t] = "store"
    /\ model_instance' = tobj[t]
    /\ tpc' = [tpc EXCEPT ![t] = "return"]
    /\ UNCHANGED <<lifecycle, objects, served, returned, last, tobj, tres>>

\* return _model_instance
ThreadReturn(t) ==
    /\ tpc[t] = "return"
    /\ tres' = [tres EXCEPT ![t] = model_instance]
    /\ tpc' = [tpc EXCEPT ![t] = "done"]
    /\ UNCHANGED <<lifecycle, model_instance, objects, served, returned, last, tobj>>

ThreadNext ==
    \E t \in Threads :
        \/ ThreadCheck(t)
        \/ ThreadConstruct(t)
        \/ ThreadStore(t)
        \/ ThreadReturn(t)

\* the threads inside get_model(), in any interleaving
NextThreads == ThreadNext

SpecThreads == Init /\ [][NextThreads]_vars

TypeOK ==
    /\ lifecycle \in {"created", "started", "no_lifespan", "aborted"}
    /\ model_instance \in 0..Len(objects)
    /\ served \in BOOLEAN
    /\ \A i \in 1..Len(objects) : objects[i].device \in {"cuda", "cpu"}

(* ---------------------------------------------------------------------- *)
(* Properties                                                              *)
(* ---------------------------------------------------------------------- *)
IsRequest == last.op \in {"health", "generate", "batch"}
IsPost == last.op \in {"generate", "batch"}
\* the last operation went through get_model()
WentThroughGetModel ==
    \/ last.op \in {"startup", "health", "get_model"}
    \/ IsPost /\ last.handler_ran
ErrorPrefix ==
    IF last.op = "generate" THEN "Failed to generate embedding: "
    ELSE "Failed to generate embeddings: "

\* C1: singleton creation happens at most once, also when several threads
\* are inside get_model() together: at most one EmbeddingModel is ever
\* constructed, and all callers that returned hold the same instance.
C1_SingletonCreatedOnce ==
    /\ Len(objects) <= 1
    /\ \A t1, t2 \in Threads :
        tpc[t1] = "done" /\ tpc[t2] = "done" => tres[t1] = tres[t2]

\* C2: on both generate routes, a schema-valid request that names a model
\* other than the active one, served while the wrapper is obtained, gets a
\* 400 (not a 500), no encode call is made, and the only model that exists
\* is still the one wrapper of the default name.
C2_MismatchIs400 ==
    (/\ IsPost
     /\ last.handler_ran
     /\ model_instance # None
     /\ last.body.has_model
     /\ last.body.model # objects[model_instance].model_name)
    => /\ last.status = 400
       /\ last.encode_calls = 0
       /\ Len(objects) = 1
       /\ objects[model_instance].model_name = DefaultModelName
       /\ last.pre_instance # None => model_instance = last.pre_instance

C2_Witness ==
    /\ last.op = "batch"
    /\ last.status = 400
    /\ last.body.model = OtherModelName
    /\ last.pre_instance = None

\* C3: a generate body without text or with empty text, and a batch body
\* without texts or with an empty list, gets a 422 without the handler
\* running: no get_model, no encode, _model_instance and the constructed
\* objects as before, whatever the model field; a non-empty list is never
\* answered 422, empty-string elements included.
C3_SchemaRejects ==
    /\ (\/ last.op = "generate" /\ (~last.body.has_text \/ last.body.text = <<>>)
        \/ last.op = "batch" /\ (~last.body.has_texts \/ last.body.texts = <<>>))
       => /\ last.status = 422
          /\ ~last.handler_ran
          /\ last.constructed = 0
          /\ last.encode_calls = 0
          /\ model_instance = last.pre_instance
          /\ Len(objects) = last.pre_objects
    /\ (last.op = "batch" /\ last.body.has_texts /\ last.body.texts # <<>>)
       => last.status # 422

C3_Witness ==
    /\ last.op = "batch"
    /\ last.body.has_texts
    /\ last.body.texts = <<>>
    /\ last.body.has_model
    /\ last.body.model = OtherModelName
    /\ last.pre_instance = None
    /\ last.status = 422

\* C4: on both generate routes a failed model load or a failed encode call
\* gives a 500 whose detail carries the message of the error raised, after
\* one construction and one encode call at most; a batch is answered 200
\* only with one vector per input text.
C4_FailureIs500 ==
    /\ (IsPost /\ last.handler_ran /\ last.raised # NoError)
       => /\ last.status = 500
          /\ last.response = [detail |-> <<ErrorPrefix, last.raised>>]
          /\ last.constructed <= 1
          /\ last.encode_calls <= 1
          /\ last.raised \in LoadErrors => last.encode_calls = 0
    /\ (last.op = "batch" /\ last.status = 200)
       => /\ last.raised = NoError
          /\ Len(last.response.embeddings) = Len(last.body.texts)

C4_Witness ==
    /\ last.op = "batch"
    /\ Len(last.body.texts) = 2
    /\ last.raised \in EncodeErrors
    /\ last.status = 500

\* C5: generate_embeddings_batch(ts) returns Len(ts) vectors in input
\* order, the i-th being generate_embedding(ts[i]), the empty list giving
\* the empty list; a 200 batch response has count = number of embeddings
\* = number of texts.
C5_BatchMatchesSingle ==
    /\ last.op = "wrapper_batch"
       => /\ Len(last.response) = Len(last.body)
          /\ \A i \in 1..Len(last.body) :
                last.response[i] =
                    EmbeddingModel_generate_embedding(objects[model_instance], last.body[i])
    /\ (last.op = "batch" /\ last.status = 200)
       => /\ last.response.count = Len(last.response.embeddings)
          /\ last.response.count = Len(last.body.texts)
          /\ \A i \in 1..Len(last.body.texts) :
                last.response.embeddings[i] =
                    EmbeddingModel_generate_embedding(objects[model_instance],
                                                      last.body.texts[i])

C5_Witness ==
    /\ last.op = "wrapper_batch"
    /\ Len(last.body) = 2
    /\ last.body[1] # last.body[2]
    /\ Len(last.response) = 2

\* C6: GET /health answers 200 or 500; 500 exactly when get_model() raised
\* (no wrapper); a 200 carries "healthy" and the wrapper's name, device
\* and dimension, and is given only with an instance in place, which the
\* handler creates itself when there was none.
C6_HealthLazyInit ==
    last.op = "health"
    => /\ last.status \in {200, 500}
       /\ last.status = 500 <=> last.raised \in LoadErrors
       /\ last.status = 500 <=> model_instance = None
       /\ last.status = 200
          => /\ last.response = [status |-> "healthy",
                                 model |-> objects[model_instance].model_name,
                                 device |-> objects[model_instance].device,
                                 dimension |-> Dimension]
             /\ last.pre_instance = None
                => /\ last.constructed = 1
                   /\ Len(objects) = last.pre_objects + 1
                   /\ model_instance = Len(objects)

C6_Witness ==
    /\ last.op = "health"
    /\ last.first
    /\ last.pre_instance = None
    /\ last.pre_objects = 0
    /\ last.status = 200

\* C7: a startup hook whose model load fails ends the process before any
\* request is served; after a startup that completed the instance exists,
\* and no request handler constructs a model.
C7_EagerStartup ==
    /\ (last.op = "startup" /\ last.raised \in LoadErrors) => lifecycle = "aborted"
    /\ lifecycle = "aborted"
       => /\ ~served
          /\ last.op = "startup"
          /\ model_instance = None
    /\ lifecycle = "started"
       => /\ model_instance # None
          /\ IsRequest => last.constructed = 0 /\ last.pre_instance # None

C7_Witness ==
    /\ lifecycle = "aborted"
    /\ last.op = "startup"
    /\ last.constructed = 1
    /\ last.raised \in LoadErrors

\* C8: once an instance exists, no operation replaces it, constructs
\* another object or changes the name or device of the existing one, and
\* every wrapper has the default model name.
C8_InstanceImmutable ==
    /\ [](\A i \in 1..Len(objects) : objects[i].model_name = DefaultModelName)
    /\ [][model_instance # None
          => /\ model_instance' = model_instance
             /\ objects' = objects]_vars

C8_Witness ==
    /\ model_instance # None
    /\ last.pre_instance = model_instance
    /\ last.op = "generate"
    /\ last.status = 500

\* C9: the generate route never returns two different vectors for the
\* same text, whatever was served before or in between.
C9_Deterministic ==
    \A t \in Texts : Cardinality(returned[t]) <= 1

C9_Witness ==
    /\ last.op = "generate"
    /\ last.status = 200
    /\ last.repeat
    /\ Cardinality(returned[last.body.text]) = 1

\* C10: a get_model() whose construction raises leaves _model_instance
\* None and constructs nothing, and the error reaches the caller; a call
\* that finds None attempts the construction (again); a call that finds
\* an instance constructs nothing and returns that instance.
C10_FailedLoadLeavesNone ==
    WentThroughGetModel
    => /\ last.pre_instance = None => last.constructed = 1
       /\ (last.constructed = 1 /\ last.raised \in LoadErrors)
          => /\ model_instance = None
             /\ Len(objects) = last.pre_objects
             /\ last.op = "get_model" => last.response = <<None>>
             /\ IsRequest => last.status = 500
       /\ last.pre_instance # None
          => /\ last.constructed = 0
             /\ model_instance = last.pre_instance
             /\ Len(objects) = last.pre_objects
             /\ last.op = "get_model" => last.response = <<last.pre_instance>>
       /\ (last.op = "get_model" /\ last.raised = NoError)
          => last.response = <<model_instance>> /\ model_instance # None

C10_Witness ==
    /\ last.op = "get_model"
    /\ last.prev_failed
    /\ last.pre_instance = None
    /\ last.constructed = 1
    /\ last.raised \in LoadErrors

====
